---- MODULE Spec2Model ----
(***************************************************************************)
(* sudo-rs: the sudoers authorization engine (specification lists, alias   *)
(* table, last-match-wins matcher, rule composition) exercised by the      *)
(* compliance tests in sudoers/user_list.rs, and the safe editor visudo    *)
(* (check and run of src/visudo/mod.rs).                                   *)
(***************************************************************************)
EXTENDS Integers, Sequences, FiniteSets, TLC

VARIABLES
    rules,        \* Policy Model: ordered sequence of Rule
    aliases,      \* Policy Model: Alias Table (principal aliases), name -> body
    list,         \* the Specification List handed to evaluate
    phase,        \* "parsed" -> "built" -> "decided" / "evaluated"
    dead,         \* aliases that resolve to "matches nothing" (cycle members)
    diagnostics,  \* ordered sequence of Diagnostic
    depth,        \* deepest alias-walk stack seen during construction
    request,      \* the Decision Request of the last decide
    verdict,      \* the Verdict of the last decide
    candidate,    \* the candidate of the last evaluate
    result,       \* the result of the last evaluate
    args,         \* visudo: the command line (file_arg, perms, owner)
    file,         \* visudo: the live sudoers file at sudoers_path
    lock,         \* visudo: the run holding the exclusive lock, 0 when free
    proc,         \* visudo: the state of each invocation of run
    chk           \* visudo: the state of the invocation of check

\* the state of the authorization engine
evars == <<rules, aliases, list, phase, dead, diagnostics, depth,
           request, verdict, candidate, result>>

\* the state of the safe editor
vvars == <<args, file, lock, proc, chk>>

vars == <<rules, aliases, list, phase, dead, diagnostics, depth,
          request, verdict, candidate, result, args, file, lock, proc, chk>>

----------------------------------------------------------------------------
(* Bounds of the model *)

\* longest generated Specification List
MaxLen == 2
\* largest negation count of a generated item
MaxNeg == 2
\* most rules in a generated policy
MaxRules == 2
\* longest alias body in a generated alias table
MaxBody == 2

----------------------------------------------------------------------------
(* Identities of the test environment *)

None == "-"

Identity(name, uid, gid, groups) ==
    [name |-> name, uid |-> uid, gid |-> gid, groups |-> groups]

\* a host, command or run-as target given as text: it has a name only
Text(name) == Identity(name, -1, -1, {})

\* the group database: root is gid 0 (tests group_name / group_id), and
\* "the primary group of all new users is `users`"
GroupDb == { [name |-> "root", gid |-> 0],
             [name |-> "users", gid |-> 100],
             [name |-> "staff", gid |-> 50] }

root == Identity("root", 0, 0, {})

\* a new user put into a group of its own instead of `users`
NewUser_private_group(name, uid) == Identity(name, uid, uid, {})

\* .user("ferris"), .user("ghost"): new users, primary group `users`
NewUser(name, uid) == Identity(name, uid, 100, {})

ferris == NewUser("ferris", 1000)

ghost == NewUser("ghost", 1001)

\* a user literally named after the group `users` who is not a member of it
namesake == Identity("users", 1002, 50, {})

\* a user who is in the groups root and users only as supplementary groups
helper == Identity("helper", 1003, 50, {0, 100})

Users == {root, ferris, ghost, namesake, helper}

MemberGids(c) == {c.gid} \cup c.groups

Max(S) == CHOOSE x \in S : \A y \in S : y <= x

Range(s) == {s[i] : i \in DOMAIN s}

----------------------------------------------------------------------------
(* Data model: Item, Specification List, Alias Table, Rule, Diagnostic *)

Item(neg, kind, name, id) ==
    [negation_count |-> neg, kind |-> kind, name |-> name, id |-> id]

AnyPrincipal(neg) == Item(neg, "AnyPrincipal", None, -1)

NamedUser(neg, name) == Item(neg, "NamedUser", name, -1)

NumericUser(neg, uid) == Item(neg, "NumericUser", None, uid)

NamedGroup(neg, name) == Item(neg, "NamedGroup", name, -1)

NumericGroup(neg, gid) == Item(neg, "NumericGroup", None, gid)

AliasRef(neg, name) == Item(neg, "AliasRef", name, -1)

\* negation_count % 2 == 0 -> positive, else negative
effective_sign_is_positive(item) == item.negation_count % 2 = 0

\* an Alias Table entry (category: principal aliases)
Def(name, body) == [name |-> name, body |-> body]

AliasNames(table) == {table[i].name : i \in DOMAIN table}

Body(table, name) ==
    table[CHOOSE i \in DOMAIN table : table[i].name = name].body

Rule(principals, hosts, runas_users, runas_groups, commands, tags) ==
    [principals |-> principals, hosts |-> hosts, runas_users |-> runas_users,
     runas_groups |-> runas_groups, commands |-> commands, tags |-> tags]

Diagnostic(site, index, item, kind, name) ==
    [position |-> [site |-> site, index |-> index, item |-> item],
     message |-> [kind |-> kind, alias |-> name]]

----------------------------------------------------------------------------
(* 4.1 Alias Table: resolve and cycle detection *)

\* an unknown alias and a member of a detected cycle "match nothing"
resolve(table, deadset, name) ==
    IF name \in AliasNames(table) /\ name \notin deadset
    THEN Body(table, name)
    ELSE <<>>

\* the members of the cycle closed by a reference to the in-progress `name`
CycleMembers(stack, name) ==
    LET first == CHOOSE i \in DOMAIN stack : stack[i] = name
    IN  {stack[i] : i \in first..Len(stack)}

RECURSIVE visit(_, _, _), visit_refs(_, _, _, _), visit_refs_late(_, _, _, _)

\* depth-first walk of the alias on top of `stack` (the in-progress nodes)
visit(table, st, stack) ==
    LET name == stack[Len(stack)]
        deeper == IF Len(stack) > st.depth THEN Len(stack) ELSE st.depth
        walked == visit_refs(table, [st EXCEPT !.depth = deeper], stack, 1)
    IN  [walked EXCEPT !.done = @ \cup {name}]

visit_refs_late(table, st, stack, j) ==
    LET name == stack[Len(stack)]
        body == Body(table, name)
    IN  IF j > Len(body) THEN st
        ELSE IF body[j].kind # "AliasRef"
        THEN visit_refs_late(table, st, stack, j + 1)
        ELSE IF body[j].name \notin AliasNames(table)
        THEN visit_refs_late(table,
                 [st EXCEPT !.diags = Append(@,
                      Diagnostic(name, 0, j, "UnknownAlias", body[j].name))],
                 stack, j + 1)
        ELSE IF Len(stack) > Len(table)
        THEN visit_refs_late(table,
                 [st EXCEPT !.diags = Append(@,
                      Diagnostic(name, 0, j, "CyclicAlias", body[j].name)),
                            !.dead = @ \cup CycleMembers(stack, body[j].name)],
                 stack, j + 1)
        ELSE IF body[j].name \in st.done
        THEN visit_refs_late(table, st, stack, j + 1)
        ELSE visit_refs_late(table, visit(table, st, Append(stack, body[j].name)),
                 stack, j + 1)

visit_refs(table, st, stack, j) ==
    LET name == stack[Len(stack)]
        body == Body(table, name)
    IN  IF j > Len(body) THEN st
        ELSE IF body[j].kind # "AliasRef"
        THEN visit_refs(table, st, stack, j + 1)
        ELSE IF body[j].name \notin AliasNames(table)
        THEN visit_refs(table,
                 [st EXCEPT !.diags = Append(@,
                      Diagnostic(name, 0, j, "UnknownAlias", body[j].name))],
                 stack, j + 1)
        ELSE IF body[j].name \in Range(stack)
        THEN visit_refs(table,
                 [st EXCEPT !.diags = Append(@,
                      Diagnostic(name, 0, j, "CyclicAlias", body[j].name)),
                            !.dead = @ \cup CycleMembers(stack, body[j].name)],
                 stack, j + 1)
        ELSE IF body[j].name \in st.done
        THEN visit_refs(table, st, stack, j + 1)
        ELSE visit_refs(table, visit(table, st, Append(stack, body[j].name)),
                 stack, j + 1)

RECURSIVE detect_cycles(_, _, _)

\* "depth-first traversal from every alias definition", in source order
detect_cycles(table, st, i) ==
    IF i > Len(table) THEN st
    ELSE IF table[i].name \in st.done
    THEN detect_cycles(table, st, i + 1)
    ELSE detect_cycles(table, visit(table, st, <<table[i].name>>), i + 1)

RECURSIVE check_references(_, _, _, _, _, _)

\* UnknownAlias is "reported as a Diagnostic at the referencing site"
check_references(table, site, index, l, j, diags) ==
    IF j > Len(l) THEN diags
    ELSE check_references(table, site, index, l, j + 1,
             IF l[j].kind = "AliasRef" /\ l[j].name \notin AliasNames(table)
             THEN Append(diags, Diagnostic(site, index, j, "UnknownAlias", l[j].name))
             ELSE diags)

RECURSIVE check_rules(_, _, _, _)

check_rules(table, rs, i, diags) ==
    IF i > Len(rs) THEN diags
    ELSE check_rules(table, rs, i + 1,
             check_references(table, "rule", i, rs[i].principals, 1, diags))

\* model construction: the alias walk, then the references made by the rules
\* and by the list under evaluation
construct(table, rs, l) ==
    LET st == detect_cycles(table,
                  [done |-> {}, dead |-> {}, diags |-> <<>>, depth |-> 0], 1)
    IN  [st EXCEPT !.diags =
            check_references(table, "list", 0, l, 1,
                check_rules(table, rs, 1, @))]

----------------------------------------------------------------------------
(* 4.2 Matcher: evaluate, base_matches, decide *)

RECURSIVE evaluate_from(_, _, _, _, _, _), base_matches(_, _, _, _)

\* the raw identity test of an item; it ignores the item's own sign
base_matches(item, c, table, deadset) ==
    CASE item.kind = "AnyPrincipal" -> TRUE
      [] item.kind = "NamedUser"    -> c.name = item.name
      [] item.kind = "NumericUser"  -> c.uid = item.id
      [] item.kind = "NamedGroup"   ->
             \E g \in GroupDb : g.name = item.name /\ g.gid \in MemberGids(c)
      [] item.kind = "NumericGroup" -> item.id \in MemberGids(c)
      [] item.kind = "AliasRef"     ->
             evaluate_from(resolve(table, deadset, item.name), 1, FALSE,
                           c, table, deadset)

\* the fold of evaluate from item i on, `decision` being the accumulator
evaluate_from(l, i, decision, c, table, deadset) ==
    IF i > Len(l) THEN decision
    ELSE evaluate_from(l, i + 1,
             IF base_matches(l[i], c, table, deadset)
             THEN effective_sign_is_positive(l[i])
             ELSE decision,
             c, table, deadset)

evaluate(l, c, table, deadset) == evaluate_from(l, 1, FALSE, c, table, deadset)

NoMatchingRule == [outcome |-> "NoMatchingRule", authorized |-> FALSE, tags |-> {}]

Authorized(tags) == [outcome |-> "Verdict", authorized |-> TRUE, tags |-> tags]

\* the run-as lists: the target user, and the target group when one is asked
runas_matches(rule, req, table, deadset) ==
    /\ evaluate(rule.runas_users, Text(req.runas_user), table, deadset)
    /\ \/ req.runas_group = None
       \/ evaluate(rule.runas_groups, Text(req.runas_group), table, deadset)

\* a Rule "applies" only if all four evaluate to true
applies(rule, req, table, deadset) ==
    /\ evaluate(rule.principals, req.principal, table, deadset)
    /\ evaluate(rule.hosts, Text(req.host), table, deadset)
    /\ runas_matches(rule, req, table, deadset)
    /\ evaluate(rule.commands, Text(req.command), table, deadset)

RECURSIVE decide_from_first(_, _, _, _, _, _)

\* the walk that keeps the first applying Rule instead of the last
decide_from_first(rs, i, v, req, table, deadset) ==
    IF i > Len(rs) THEN v
    ELSE decide_from_first(rs, i + 1,
             IF applies(rs[i], req, table, deadset) /\ ~v.authorized
             THEN Authorized(rs[i].tags)
             ELSE v,
             req, table, deadset)

RECURSIVE decide_from(_, _, _, _, _, _)

\* the walk over the Rules in source order, `v` being the verdict so far
decide_from(rs, i, v, req, table, deadset) ==
    IF i > Len(rs) THEN v
    ELSE decide_from(rs, i + 1,
             IF applies(rs[i], req, table, deadset)
             THEN Authorized(rs[i].tags)
             ELSE v,
             req, table, deadset)

decide(rs, table, deadset, req) ==
    decide_from(rs, 1, NoMatchingRule, req, table, deadset)

----------------------------------------------------------------------------
(* The environments of the compliance tests (sudoers/user_list.rs) *)

ALL == <<AnyPrincipal(0)>>

\* `<user_list> ALL=(ALL:ALL) ALL`, with the tags of the command
user_spec(user_list, tags) == Rule(user_list, ALL, ALL, ALL, ALL, tags)

Env(rs, table) == [rules |-> rs, aliases |-> table]

\* the sudoers file of the image left in place instead of the empty one
no_match_default_sudoers ==
    Env(<<user_spec(<<NamedUser(0, "root")>>, {})>>, <<>>)

no_match == Env(<<>>, <<>>)

\* the same policy without the NOPASSWD tag
all_without_tag == Env(<<user_spec(ALL, {})>>, <<>>)

all == Env(<<user_spec(ALL, {"NOPASSWD"})>>, <<>>)

\* the user list written with the group sigil: `%root`
user_name_as_group ==
    Env(<<user_spec(<<NamedGroup(0, "root")>>, {"NOPASSWD"})>>, <<>>)

user_name == Env(<<user_spec(<<NamedUser(0, "root")>>, {"NOPASSWD"})>>, <<>>)

user_id == Env(<<user_spec(<<NumericUser(0, 0)>>, {"NOPASSWD"})>>, <<>>)

\* the user list written without the group sigil: `root`
group_name_as_user ==
    Env(<<user_spec(<<NamedUser(0, "root")>>, {"NOPASSWD"})>>, <<>>)

group_name == Env(<<user_spec(<<NamedGroup(0, "root")>>, {"NOPASSWD"})>>, <<>>)

group_id == Env(<<user_spec(<<NumericGroup(0, 0)>>, {"NOPASSWD"})>>, <<>>)

\* the same user list with one `!` left out
double_negative_is_positive_single ==
    Env(<<user_spec(<<NamedUser(1, "root")>>, {"NOPASSWD"})>>, <<>>)

double_negative_is_positive ==
    Env(<<user_spec(<<NamedUser(2, "root")>>, {"NOPASSWD"})>>, <<>>)

negation_excludes_group_members ==
    Env(<<user_spec(<<NamedGroup(0, "users"), NamedUser(1, "ghost")>>, {})>>, <<>>)

negation_is_order_sensitive ==
    Env(<<user_spec(<<NamedUser(1, "ghost"), NamedGroup(0, "users")>>,
                    {"NOPASSWD"})>>, <<>>)

\* the alias body in the other order: `!ghost, %users`
ADMINS_reordered == Def("ADMINS", <<NamedUser(1, "ghost"), NamedGroup(0, "users")>>)

\* User_Alias ADMINS = %users, !ghost
ADMINS == Def("ADMINS", <<NamedGroup(0, "users"), NamedUser(1, "ghost")>>)

user_alias_works ==
    Env(<<user_spec(<<AliasRef(0, "ADMINS")>>, {})>>, <<ADMINS>>)

negated_user_alias_works ==
    Env(<<user_spec(<<AliasRef(1, "ADMINS")>>, {})>>, <<ADMINS>>)

TestEnvs ==
    { no_match, all, user_name, user_id, group_name, group_id,
      double_negative_is_positive, negation_excludes_group_members,
      negation_is_order_sensitive, user_alias_works, negated_user_alias_works }

----------------------------------------------------------------------------
(* Inputs: lists, alias tables, policies and requests drawn from bounded sets *)

SeqsUpTo(S, n) == UNION {[1..k -> S] : k \in 0..n}

NegationCounts == 0..MaxNeg

\* the items of the generated Specification Lists
Items ==
    UNION { { AnyPrincipal(n), NamedUser(n, "root"), NamedUser(n, "ghost"),
              NamedGroup(n, "users"), NamedGroup(n, "root"), NumericGroup(n, 0),
              AliasRef(n, "ADMINS") }
            : n \in NegationCounts }

Lists == SeqsUpTo(Items, MaxLen)

\* the alias tables the generated lists and policies are read with
AliasTables ==
    { <<>>, <<ADMINS>>, <<Def("ADMINS", <<AliasRef(0, "ADMINS")>>)>> }

Only(name) == <<NamedUser(0, name)>>

\* the rules of the generated policies: the user list, the host list, the
\* run-as lists and the command list are each restricted by one of them
RuleCatalogue ==
    { user_spec(ALL, {"NOPASSWD"}),
      user_spec(<<AliasRef(0, "ADMINS")>>, {"PASSWD"}),
      Rule(Only("ferris"), Only("h1"), ALL, ALL, ALL, {"SETENV"}),
      Rule(<<NamedGroup(0, "users")>>, ALL, Only("root"), Only("staff"), ALL, {}),
      Rule(ALL, ALL, ALL, ALL, Only("/bin/ls"), {"NOEXEC", "NOPASSWD"}) }

Policies == SeqsUpTo(RuleCatalogue, MaxRules)

HasAliasRef(l) == \E i \in DOMAIN l : l[i].kind = "AliasRef"

\* the alias table matters to a list only through the list's references
TablesFor(l) == IF HasAliasRef(l) THEN AliasTables ELSE {<<>>}

PolicyTables(rs) ==
    IF \E i \in DOMAIN rs : HasAliasRef(rs[i].principals)
    THEN AliasTables
    ELSE {<<>>}

Envs ==
    TestEnvs \cup UNION { { Env(rs, table) : table \in PolicyTables(rs) } : rs \in Policies }

Request(principal, host, runas_user, runas_group, command) ==
    [principal |-> principal, host |-> host, runas_user |-> runas_user,
     runas_group |-> runas_group, command |-> command]

\* the run-as targets asked for: a user, and a group or none
RunasTargets == { <<"root", None>>, <<"root", "users">>, <<"ferris", "staff">> }

Requests ==
    { Request(p, h, t[1], t[2], c) :
        p \in Users, h \in {"h1", "h2"}, t \in RunasTargets,
        c \in {"/bin/ls", "/bin/true"} }

\* alias tables of the definitions A, B, C (in source order), any of them
\* left out, with bodies of references and one group predicate
BodyItems ==
    { AliasRef(0, "A"), AliasRef(0, "B"), AliasRef(0, "C"), NamedGroup(0, "users") }

Bodies == SeqsUpTo(BodyItems, MaxBody) \ {<<>>}

RECURSIVE Tables(_)

Tables(names) ==
    IF names = <<>> THEN {<<>>}
    ELSE LET rest == Tables(Tail(names))
         IN  rest \cup { <<Def(Head(names), b)>> \o t : b \in Bodies, t \in rest }

\* the names of the generated definitions, in source order
GeneratedNames(n) == SubSeq(<<"A", "B", "C">>, 1, n)

\* alias bodies made of references only, the items the alias walk follows,
\* each name referred to at most once and in every order
ReferenceBodies(names) ==
    { b \in SeqsUpTo({ AliasRef(0, n) : n \in Range(names) }, MaxBody) \ {<<>>} :
        \A i, j \in DOMAIN b : b[i] = b[j] => i = j }

RECURSIVE ReferenceTables(_, _)

\* the alias tables that define some of `names`, in source order, each by a
\* body of references to `targets`
ReferenceTables(names, targets) ==
    IF names = <<>> THEN {<<>>}
    ELSE LET rest == ReferenceTables(Tail(names), targets)
         IN  rest \cup { <<Def(Head(names), b)>> \o t :
                           b \in ReferenceBodies(targets), t \in rest }

----------------------------------------------------------------------------
(* visudo: the files, the command line and the state of an invocation       *)

\* longest contents of a sudoers file or of its staged copy
MaxContent == 2
\* most editor sessions of one run
MaxEdits == 2

\* mode 0o440, the mode check demands and run sets
Mode0440 == 288
\* mode 0o640, set on a file run creates for -f
Mode0640 == 416
\* the mask 0o777 of check: mode & 0o777 is mode % 512
PermissionBits == 512

\* the bytes of a file: one of valid policy text and one the parser reports
Bytes == {"a", "?"}

Contents == UNION { [1..n -> Bytes] : n \in 0..MaxContent }

\* Sudoers::read: the error list of a text, empty when every byte parses
Sudoers_read(text) == { i \in 1..Len(text) : text[i] = "?" }

\* the live file: its inode's contents, mode and owner
SudoersFile(exists, contents, mode, uid, gid) ==
    [exists |-> exists, contents |-> contents, mode |-> mode,
     uid |-> uid, gid |-> gid]

NoFile == SudoersFile(FALSE, <<>>, 0, 0, 0)

\* (file_arg, perms, owner) of the command line
Args(file_arg, perms, owner) ==
    [file_arg |-> file_arg, perms |-> perms, owner |-> owner]

AllArgs == { Args(f, p, o) : f \in {None, "sudoers.d/x"}, p \in BOOLEAN, o \in BOOLEAN }

\* the two concurrent invocations of run
Procs == {1, 2}

\* an invocation of run before its first step
NotStarted ==
    [pc |-> "exists", existed |-> FALSE, sudoers_contents |-> <<>>,
     tmp |-> <<>>, parsed |-> FALSE, errors |-> {}, editors |-> 0,
     input |-> "", acquired |-> FALSE, unlocked |-> FALSE,
     session |-> "none", result |-> "none", msg |-> ""]

\* an invocation of check before its first step
NotChecked ==
    [pc |-> "open", opened |-> FALSE, metadata |-> FALSE, parsed |-> FALSE,
     errors |-> {}, result |-> "none", msg |-> ""]

\* no visudo is running
NotInvoked ==
    /\ args = Args(None, FALSE, FALSE)
    /\ file = NoFile
    /\ lock = 0
    /\ proc = [p \in Procs |-> NotStarted]
    /\ chk = NotChecked

----------------------------------------------------------------------------
(* The state machine: parse delivers the records, construction builds the    *)
(* Policy Model, then decide / evaluate are applied to it                    *)

NoRequest == Request(Text(None), None, None, None, None)

NoVerdict == [outcome |-> "none", authorized |-> FALSE, tags |-> {}]

Unbuilt ==
    /\ phase = "parsed"
    /\ dead = {}
    /\ diagnostics = <<>>
    /\ depth = 0
    /\ request = NoRequest
    /\ verdict = NoVerdict
    /\ candidate = Text(None)
    /\ result = FALSE

\* a policy text parsed into rules and aliases
Init ==
    /\ \E env \in Envs : rules = env.rules /\ aliases = env.aliases
    /\ list = <<>>
    /\ Unbuilt
    /\ NotInvoked

\* one Specification List, read with one of the alias tables
InitEval ==
    /\ rules = <<>>
    /\ list \in Lists
    /\ aliases \in TablesFor(list)
    /\ Unbuilt
    /\ NotInvoked

\* one alias reference, read with a generated alias table
InitAlias ==
    /\ rules = <<>>
    /\ aliases \in Tables(GeneratedNames(3))
    /\ list \in { <<AliasRef(0, n)>> : n \in Range(GeneratedNames(3)) }
    /\ Unbuilt
    /\ NotInvoked

\* model construction: cycle detection runs once, Diagnostics are collected
Build ==
    /\ phase = "parsed"
    /\ \E st \in {construct(aliases, rules, list)} :
           /\ dead' = st.dead
           /\ diagnostics' = st.diags
           /\ depth' = st.depth
    /\ phase' = "built"
    /\ UNCHANGED <<rules, aliases, list, request, verdict, candidate, result>>
    /\ UNCHANGED vvars

\* decide(Policy Model, Decision Request) -> Verdict
Decide(req) ==
    /\ phase \in {"built", "decided"}
    /\ request' = req
    /\ verdict' = decide(rules, aliases, dead, req)
    /\ phase' = "decided"
    /\ UNCHANGED <<rules, aliases, list, dead, diagnostics, depth, candidate, result>>
    /\ UNCHANGED vvars

\* evaluate(list, candidate) -> bool
Evaluate(c) ==
    /\ phase \in {"built", "evaluated"}
    /\ candidate' = c
    /\ result' = evaluate(list, c, aliases, dead)
    /\ phase' = "evaluated"
    /\ UNCHANGED <<rules, aliases, list, dead, diagnostics, depth, request, verdict>>
    /\ UNCHANGED vvars

Next ==
    \/ Build
    \/ \E req \in Requests : Decide(req)

NextEval ==
    \/ Build
    \/ \E c \in Users : Evaluate(c)

Spec == Init /\ [][Next]_vars

SpecEval == InitEval /\ [][NextEval]_vars

SpecAlias == InitAlias /\ [][NextEval]_vars

\* the policy text has not been parsed yet
InitWalk ==
    /\ rules = <<>>
    /\ aliases = <<>>
    /\ list = <<>>
    /\ phase = "text"
    /\ dead = {}
    /\ diagnostics = <<>>
    /\ depth = 0
    /\ request = NoRequest
    /\ verdict = NoVerdict
    /\ candidate = Text(None)
    /\ result = FALSE
    /\ NotInvoked

\* parse delivers an alias table of references: self-referential, mutually
\* referential and dangling definitions are among them
Parse(table) ==
    /\ phase = "text"
    /\ aliases' = table
    /\ phase' = "parsed"
    /\ UNCHANGED <<rules, list, dead, diagnostics, depth, request, verdict,
                   candidate, result>>
    /\ UNCHANGED vvars

NextWalk ==
    \/ \E table \in ReferenceTables(GeneratedNames(3), GeneratedNames(3)) : Parse(table)
    \/ Build

\* construction is one call that runs to completion once the text is parsed
SpecWalk == InitWalk /\ [][NextWalk]_vars /\ WF_vars(Build)

----------------------------------------------------------------------------
(* visudo run: two invocations on the same sudoers_path, one action per     *)
(* system call or step of run                                               *)

\* the engine is not used while visudo runs
NoPolicy ==
    /\ rules = <<>>
    /\ aliases = <<>>
    /\ list = <<>>
    /\ Unbuilt

\* an io::Error passed on by `?` with no message of visudo's own
IoError == "io error"

lock_exclusive_shared(holder) == "Ok"

\* lock_exclusive(nonblocking = true) on a file whose lock `holder` has
lock_exclusive(holder) == IF holder = 0 THEN "Ok" ELSE "WouldBlock"

\* write_all on a descriptor at offset 0: the bytes written replace a prefix,
\* the file keeps what lies behind them
write_all(contents, data) ==
    data \o SubSeq(contents, Len(data) + 1, Len(contents))

\* run returns `res`: its locals are dropped, what is left is the result and
\* whether the lock was taken and released
returned(pr, res) ==
    [NotStarted EXCEPT !.pc = "done", !.result = res,
                       !.acquired = pr.acquired, !.unlocked = pr.unlocked]

leave_early(pr, res) ==
    [pr EXCEPT !.pc = IF res = "Ok" THEN "unlock" ELSE "return", !.session = res]

\* the closure of the editing session returns `res`: run goes on to unlock
leave(pr, res) == [pr EXCEPT !.pc = "unlock", !.session = res]

after_parse_unchecked(errors) == "commit"

\* where the edit loop goes after a parse of the staged copy
after_parse(errors) == IF errors = {} THEN "commit" ELSE "prompt"

\* the bytes the user can answer the prompt with
Inputs == {"e", "x", "q"}

on_input_any(input) ==
    CASE input = "x" -> "return"
      [] OTHER -> "editor"

\* where the prompt loop goes on a byte read from stdin
on_input(input) ==
    CASE input = "e" -> "editor"
      [] input = "x" -> "return"
      [] OTHER -> "prompt"

\* the files run can find at sudoers_path
RunFiles ==
    {NoFile} \cup { SudoersFile(TRUE, c, 420, 0, 0) : c \in Contents }

\* the command lines of run that behave differently
RunArgs ==
    { Args(None, FALSE, FALSE), Args("sudoers.d/x", FALSE, FALSE),
      Args("sudoers.d/x", TRUE, TRUE) }

InitRun ==
    /\ NoPolicy
    /\ args \in RunArgs
    /\ file \in RunFiles
    /\ lock = 0
    /\ proc = [p \in Procs |-> NotStarted]
    /\ chk = NotChecked

\* sudoers_path.exists()
RunExists(p) ==
    /\ proc[p].pc = "exists"
    /\ proc' = [proc EXCEPT ![p].existed = file.exists, ![p].pc = "open"]
    /\ UNCHANGED <<args, file, lock, chk>>

\* File::options().read(true).write(true).open, or File::create and the
\* mode 0640 of a file created for -f
RunOpen(p, ok) ==
    /\ proc[p].pc = "open"
    /\ IF ~ok \/ (proc[p].existed /\ ~file.exists)
       THEN /\ proc' = [proc EXCEPT ![p] = returned(@, IoError)]
            /\ file' = file
       ELSE /\ proc' = [proc EXCEPT ![p].pc = "lock"]
            /\ file' =
                 IF proc[p].existed
                 THEN file
                 ELSE LET created ==
                            IF file.exists
                            THEN [file EXCEPT !.contents = <<>>]
                            ELSE SudoersFile(TRUE, <<>>, 420, 0, 0)
                      IN  IF args.file_arg # None
                          THEN [created EXCEPT !.mode = Mode0640]
                          ELSE created
    /\ UNCHANGED <<args, lock, chk>>

\* sudoers_file.lock_exclusive(true)
RunLock(p) ==
    /\ proc[p].pc = "lock"
    /\ IF lock_exclusive(lock) = "Ok"
       THEN /\ lock' = p
            /\ proc' = [proc EXCEPT ![p].pc = "stage", ![p].acquired = TRUE]
       ELSE /\ lock' = lock
            /\ proc' = [proc EXCEPT ![p] = returned(@, "busy, try again later")]
    /\ UNCHANGED <<args, file, chk>>

\* the steps of staging that can fail, in the order of the code
StageSteps == <<"set_permissions", "chown", "tmp", "read_to_end", "solve_editor_path">>

\* mode and owner of the live file, the temporary file and the copy of the
\* contents into it; `failed` is the step that fails, 0 when none does. The
\* owner set is (real_uid, real_gid) of the caller, who is root
RunStage(p, failed) ==
    /\ proc[p].pc = "stage"
    /\ LET reached(i) == failed = 0 \/ i < failed
           chmod == (args.perms \/ args.file_arg = None) /\ reached(1)
           chown == (args.owner \/ args.file_arg = None) /\ reached(2)
           read == IF proc[p].existed /\ reached(4) THEN file.contents ELSE <<>>
       IN  /\ file' = [file EXCEPT !.mode = IF chmod THEN Mode0440 ELSE @,
                                   !.uid = IF chown THEN 0 ELSE @,
                                   !.gid = IF chown THEN 0 ELSE @]
           /\ proc' =
                IF failed = 0
                THEN [proc EXCEPT ![p].sudoers_contents = read,
                                  ![p].tmp = read,
                                  ![p].pc = "editor"]
                ELSE [proc EXCEPT ![p] = leave([@ EXCEPT !.sudoers_contents = read],
                                               IoError)]
    /\ UNCHANGED <<args, lock, chk>>

\* Command::new(editor_path).arg(tmp_path).spawn()?.wait_with_output()?: the
\* user leaves `text` in the temporary file
RunEditor(p, ok, text) ==
    /\ proc[p].pc = "editor"
    /\ proc[p].editors < MaxEdits
    /\ proc' =
         IF ok
         THEN [proc EXCEPT ![p].tmp = text, ![p].editors = @ + 1,
                           ![p].pc = "parse", ![p].msg = "", ![p].input = ""]
         ELSE [proc EXCEPT ![p] = leave(@, IoError)]
    /\ UNCHANGED <<args, file, lock, chk>>

\* File::open(tmp_path).and_then(Sudoers::read), then errors.is_empty()
RunParse(p, ok) ==
    /\ proc[p].pc = "parse"
    /\ proc' =
         IF ok
         THEN LET errors == Sudoers_read(proc[p].tmp)
              IN  [proc EXCEPT ![p].parsed = TRUE, ![p].errors = errors,
                               ![p].pc = after_parse(errors),
                               ![p].msg = IF errors = {} THEN @
                                          ELSE "Come on... you can do better than that."]
         ELSE [proc EXCEPT ![p] = leave(@, "unable to re-open temporary file")]
    /\ UNCHANGED <<args, file, lock, chk>>

\* one turn of the prompt loop: the prompt is written, one byte is read
RunPrompt(p, written, read, input) ==
    /\ proc[p].pc = "prompt"
    /\ on_input(input) = "editor" => proc[p].editors < MaxEdits
    /\ proc' =
         IF ~written
         THEN [proc EXCEPT ![p] = leave([@ EXCEPT !.input = ""], IoError)]
         ELSE IF ~read
         THEN [proc EXCEPT ![p] = leave([@ EXCEPT !.input = "",
                                                  !.msg = "visudo: cannot read user input"],
                                        "Ok")]
         ELSE CASE on_input(input) = "editor" ->
                     [proc EXCEPT ![p].pc = "editor", ![p].input = input,
                                  ![p].msg = "What now?"]
                [] on_input(input) = "return" ->
                     [proc EXCEPT ![p] = leave([@ EXCEPT !.input = input,
                                                         !.msg = "What now?"], "Ok")]
                [] OTHER ->
                     [proc EXCEPT ![p].input = input, ![p].msg = "Invalid option"]
    /\ UNCHANGED <<args, file, lock, chk>>

\* std::fs::read(tmp_path), the comparison with sudoers_contents and
\* sudoers_file.write_all(tmp_contents)
RunCommit(p, ok) ==
    /\ proc[p].pc = "commit"
    /\ LET tmp_contents == proc[p].tmp
       IN  IF ~ok
           THEN /\ proc' = [proc EXCEPT ![p] = leave(@, IoError)]
                /\ file' = file
           ELSE IF tmp_contents = proc[p].sudoers_contents
           THEN /\ proc' = [proc EXCEPT ![p] = leave([@ EXCEPT !.msg = "unchanged"], "Ok")]
                /\ file' = file
           ELSE /\ proc' = [proc EXCEPT ![p] = leave([@ EXCEPT !.msg = "written"], "Ok")]
                /\ file' = [file EXCEPT !.contents = write_all(@, tmp_contents)]
    /\ UNCHANGED <<args, lock, chk>>

\* sudoers_file.unlock(): the closure has returned, what is left of it is
\* its result
RunUnlock(p) ==
    /\ proc[p].pc = "unlock"
    /\ lock' = IF lock = p THEN 0 ELSE lock
    /\ proc' = [proc EXCEPT ![p] = [NotStarted EXCEPT !.pc = "return",
                                                      !.acquired = proc[p].acquired,
                                                      !.unlocked = TRUE,
                                                      !.session = proc[p].session]]
    /\ UNCHANGED <<args, file, chk>>

\* result?; Ok(()): run returns what the editing session returned
RunReturn(p) ==
    /\ proc[p].pc = "return"
    /\ proc' = [proc EXCEPT ![p] = returned(@, proc[p].session)]
    /\ UNCHANGED <<args, file, lock, chk>>

NextRun ==
    \/ \E p \in Procs : RunExists(p) /\ UNCHANGED evars
    \/ \E p \in Procs, ok \in BOOLEAN : RunOpen(p, ok) /\ UNCHANGED evars
    \/ \E p \in Procs : RunLock(p) /\ UNCHANGED evars
    \/ \E p \in Procs, failed \in 0..Len(StageSteps) : RunStage(p, failed) /\ UNCHANGED evars
    \/ \E p \in Procs, ok \in BOOLEAN, text \in Contents : RunEditor(p, ok, text) /\ UNCHANGED evars
    \/ \E p \in Procs, ok \in BOOLEAN : RunParse(p, ok) /\ UNCHANGED evars
    \/ \E p \in Procs, written \in BOOLEAN, read \in BOOLEAN, input \in Inputs :
          RunPrompt(p, written, read, input) /\ UNCHANGED evars
    \/ \E p \in Procs, ok \in BOOLEAN : RunCommit(p, ok) /\ UNCHANGED evars
    \/ \E p \in Procs : RunUnlock(p) /\ UNCHANGED evars
    \/ \E p \in Procs : RunReturn(p) /\ UNCHANGED evars

SpecRun == InitRun /\ [][NextRun]_vars

----------------------------------------------------------------------------
(* visudo check: one action per test of check                               *)

\* st_mode of a regular file with the permission bits `mode`
st_mode(mode) == 32768 + mode

\* the modes check can find: 0440, 0640, 0644, 0400 and 04440
CheckModes == {Mode0440, Mode0640, 420, 256, 2336}

\* the owners check can find
CheckOwners == {<<0, 0>>, <<0, 1000>>, <<1000, 0>>, <<1000, 1000>>}

\* the files check can find at sudoers_path
CheckFiles ==
    {NoFile} \cup
    { SudoersFile(TRUE, c, m, o[1], o[2]) :
        c \in Contents, m \in CheckModes, o \in CheckOwners }

mode_test_applies_flag(a) == a.perms

\* file_arg.is_none() || perms
mode_test_applies(a) == a.file_arg = None \/ a.perms

\* file_arg.is_none() || owner
owner_test_applies(a) == a.file_arg = None \/ a.owner

\* check returns `res`
checked(c, res) == [c EXCEPT !.pc = "done", !.result = res]

InitCheck ==
    /\ NoPolicy
    /\ args \in AllArgs
    /\ file \in CheckFiles
    /\ lock = 0
    /\ proc = [p \in Procs |-> NotStarted]
    /\ chk = NotChecked

\* File::open(sudoers_path) and sudoers_file.metadata()
CheckOpen(opened, metadata) ==
    /\ chk.pc = "open"
    /\ chk' =
         IF ~file.exists \/ ~opened
         THEN checked(chk, "unable to open")
         ELSE IF ~metadata
         THEN checked([chk EXCEPT !.opened = TRUE], "metadata failed")
         ELSE [chk EXCEPT !.opened = TRUE, !.metadata = TRUE, !.pc = "mode"]
    /\ UNCHANGED <<args, file, lock, proc>>

\* the mode test: metadata.permissions().mode() & 0o777 against 0o440
CheckMode ==
    /\ chk.pc = "mode"
    /\ LET mode == st_mode(file.mode) % PermissionBits
       IN  chk' =
             IF mode_test_applies(args) /\ mode # Mode0440
             THEN checked(chk, "bad permissions, should be mode 0440")
             ELSE [chk EXCEPT !.pc = "owner"]
    /\ UNCHANGED <<args, file, lock, proc>>

\* the owner test: (metadata.uid(), metadata.gid()) against (0, 0)
CheckOwner ==
    /\ chk.pc = "owner"
    /\ LET owner == <<file.uid, file.gid>>
       IN  chk' =
             IF owner_test_applies(args) /\ owner # <<0, 0>>
             THEN checked(chk, "wrong owner (uid, gid) should be (0, 0)")
             ELSE [chk EXCEPT !.pc = "parse"]
    /\ UNCHANGED <<args, file, lock, proc>>

\* Sudoers::read(sudoers_file), "parsed OK" or the syntax errors
CheckParse(ok) ==
    /\ chk.pc = "parse"
    /\ chk' =
         IF ~ok
         THEN checked(chk, "read failed")
         ELSE LET errors == Sudoers_read(file.contents)
              IN  IF errors = {}
                  THEN checked([chk EXCEPT !.parsed = TRUE, !.errors = errors,
                                           !.msg = "parsed OK"], "Ok")
                  ELSE checked([chk EXCEPT !.parsed = TRUE, !.errors = errors,
                                           !.msg = "syntax error"],
                               "invalid sudoers file")
    /\ UNCHANGED <<args, file, lock, proc>>

NextCheck ==
    \/ \E opened \in BOOLEAN, metadata \in BOOLEAN :
          CheckOpen(opened, metadata) /\ UNCHANGED evars
    \/ CheckMode /\ UNCHANGED evars
    \/ CheckOwner /\ UNCHANGED evars
    \/ \E ok \in BOOLEAN : CheckParse(ok) /\ UNCHANGED evars

SpecCheck == InitCheck /\ [][NextCheck]_vars

----------------------------------------------------------------------------
(* Properties *)

\* the user list of a test environment: `<user_list> ALL=(ALL:ALL) ALL`
user_list(env) == env.rules[1].principals

InUsers(c) == \E g \in GroupDb : g.name = "users" /\ g.gid \in MemberGids(c)

\* the items of l whose base predicate matches c
MatchingItems(l, c) ==
    { i \in DOMAIN l : base_matches(l[i], c, aliases, dead) }

\* C1: last-match-wins. evaluate(list, candidate) is the effective sign of the
\* last item in source order whose base predicate matches the candidate (false
\* when none matches), whatever earlier matching items say; for ghost, a member
\* of users, `!ghost, %users` yields true and `%users, !ghost` yields false,
\* and a users member other than ghost is accepted by both lists.
LastMatchWins ==
    phase = "evaluated" =>
        /\ result = IF MatchingItems(list, candidate) = {} THEN FALSE
                    ELSE effective_sign_is_positive(
                             list[Max(MatchingItems(list, candidate))])
        /\ list = user_list(negation_is_order_sensitive)
               => /\ candidate.name = "ghost" => result = TRUE
                  /\ candidate.name = "ferris" \/ InUsers(candidate) => result = TRUE
        /\ list = user_list(negation_excludes_group_members)
               => /\ candidate.name = "ghost" => result = FALSE
                  /\ candidate.name = "ferris" => result = TRUE
                  /\ InUsers(candidate) /\ candidate.name # "ghost" => result = TRUE

\* C1 witness: an earlier matching item of the opposite sign was overridden,
\* here the group member ghost under `!ghost, %users`
LastMatchWins_witness ==
    /\ phase = "evaluated"
    /\ list = user_list(negation_is_order_sensitive)
    /\ candidate = ghost
    /\ MatchingItems(list, candidate) = {1, 2}
    /\ result = TRUE

\* the list with every negation count taken modulo 2
Reduced(l) == [i \in DOMAIN l |-> [l[i] EXCEPT !.negation_count = @ % 2]]

\* C2: double negation cancels. A list decides exactly like the same list with
\* every negation count n replaced by n mod 2; `!!root` against root yields
\* true and `!root` against root yields false.
DoubleNegationCancels ==
    phase = "evaluated" =>
        /\ result = evaluate(Reduced(list), candidate, aliases, dead)
        /\ list = user_list(double_negative_is_positive) /\ candidate = root
               => result = TRUE
        /\ list = <<NamedUser(1, "root")>> /\ candidate = root
               => result = FALSE

\* C2 witness: `!!root` was evaluated against root
DoubleNegationCancels_witness ==
    /\ phase = "evaluated"
    /\ list = <<NamedUser(2, "root")>>
    /\ candidate = root
    /\ result = TRUE

\* the four lists of a Rule against the fields of the request
AllFour(rule, req) ==
    /\ evaluate(rule.principals, req.principal, aliases, dead)
    /\ evaluate(rule.hosts, Text(req.host), aliases, dead)
    /\ evaluate(rule.runas_users, Text(req.runas_user), aliases, dead)
    /\ req.runas_group # None
           => evaluate(rule.runas_groups, Text(req.runas_group), aliases, dead)
    /\ evaluate(rule.commands, Text(req.command), aliases, dead)

ApplyingRules == { i \in DOMAIN rules : AllFour(rules[i], request) }

\* C3: top-level decision composition. A rule applies only if its principal,
\* host, run-as and command lists all evaluate to true; when rules apply the
\* verdict is authorized with exactly the tag set of the last applying rule in
\* source order, and is authorized only when a rule applies.
LastApplyingRuleDecides ==
    phase = "decided" =>
        /\ verdict.authorized <=> ApplyingRules # {}
        /\ ApplyingRules # {} => verdict.tags = rules[Max(ApplyingRules)].tags

\* C3 witness: two rules with different tag sets apply, the verdict carries the
\* tags of the later one and not those of the earlier one
LastApplyingRuleDecides_witness ==
    /\ phase = "decided"
    /\ ApplyingRules = {1, 2}
    /\ rules[1].tags \ rules[2].tags # {}
    /\ verdict.tags = rules[2].tags

\* C8: no-rule-applies denial. When no rule applies the verdict is the
\* distinguished NoMatchingRule outcome and never authorized; the empty policy
\* yields NoMatchingRule for every request; a principal list none of whose
\* items' base predicates matches evaluates to false, so its rule never applies.
NoRuleAppliesDenial ==
    phase = "decided" =>
        /\ ApplyingRules = {}
               => verdict = NoMatchingRule /\ ~verdict.authorized
        /\ rules = no_match.rules => verdict = NoMatchingRule
        /\ \A i \in DOMAIN rules :
               MatchingItems(rules[i].principals, request.principal) = {}
                   => /\ ~evaluate(rules[i].principals, request.principal,
                                   aliases, dead)
                      /\ i \notin ApplyingRules

\* C8 witness: a request for root was decided against the empty policy
NoRuleAppliesDenial_witness ==
    /\ phase = "decided"
    /\ rules = <<>>
    /\ request.principal = root
    /\ verdict = NoMatchingRule

\* C9: `ALL ALL=(ALL:ALL) NOPASSWD: ALL` authorizes every decision request and
\* the verdict's tag set contains NOPASSWD.
AllAuthorizesEveryRequest ==
    phase = "decided" /\ rules = all.rules
        => verdict.authorized /\ "NOPASSWD" \in verdict.tags

\* C9 witness: a user other than root asked for a run-as user and group under
\* the policy `ALL ALL=(ALL:ALL) NOPASSWD: ALL`
AllAuthorizesEveryRequest_witness ==
    /\ phase = "decided"
    /\ rules = all.rules
    /\ request.principal = ferris
    /\ request.runas_user = "ferris"
    /\ request.runas_group = "staff"
    /\ verdict.authorized

\* C10: `root ALL=(ALL:ALL) NOPASSWD: ALL` authorizes every request whose
\* principal is named root and yields NoMatchingRule for every other principal,
\* also for one that shares a group with root.
RootOnlyPolicy ==
    phase = "decided" /\ rules = user_name.rules
        => IF request.principal.name = "root"
           THEN verdict.authorized
           ELSE verdict = NoMatchingRule

\* C10 witness: a member of root's group who is not root was denied
RootOnlyPolicy_witness ==
    /\ phase = "decided"
    /\ rules = user_name.rules
    /\ request.principal = helper
    /\ 0 \in MemberGids(request.principal)
    /\ verdict = NoMatchingRule

\* the group ids a group item names: the id of `%G` in the group database, N of `%#N`
GidsOf(item) ==
    IF item.kind = "NamedGroup"
    THEN { g.gid : g \in { h \in GroupDb : h.name = item.name } }
    ELSE { item.id }

IsGroupItem(item) == item.kind \in {"NamedGroup", "NumericGroup"}

\* C5: alias expansion reuses the same evaluator. The list of one unnegated
\* alias reference yields what evaluate yields on the list the alias resolves
\* to (its body; nothing for an unknown or cyclic alias); with
\* `ADMINS = %users, !ghost` the list `ADMINS` yields true for every member of
\* users other than ghost and false for ghost.
AliasExpansion ==
    phase = "evaluated" =>
        /\ Len(list) = 1 /\ list[1].kind = "AliasRef" /\ list[1].negation_count = 0
               => result = evaluate(resolve(aliases, dead, list[1].name),
                                    candidate, aliases, dead)
        /\ list = user_list(user_alias_works) /\ aliases = <<ADMINS>>
               => /\ candidate.name = "ghost" => result = FALSE
                  /\ candidate.name = "ferris" => result = TRUE
                  /\ InUsers(candidate) /\ candidate.name # "ghost" => result = TRUE
                  /\ ~InUsers(candidate) => result = FALSE

\* C5 witness: `ADMINS` was evaluated for ghost, whom its body excludes
AliasExpansion_witness ==
    /\ phase = "evaluated"
    /\ list = <<AliasRef(0, "ADMINS")>>
    /\ aliases = <<Def("ADMINS", <<NamedGroup(0, "users"), NamedUser(1, "ghost")>>)>>
    /\ candidate = ghost
    /\ result = FALSE

\* C7: group predicates test membership. A list of one unnegated `%G` or `%#N`
\* accepts exactly the candidates whose primary group or one of whose
\* supplementary groups is that group; a candidate whose user name equals the
\* group name is not accepted for that; `%root` and `%#0` accept root.
GroupMembership ==
    phase = "evaluated" =>
        /\ Len(list) = 1 /\ IsGroupItem(list[1]) /\ list[1].negation_count = 0
               => /\ candidate.gid \in GidsOf(list[1]) => result = TRUE
                  /\ candidate.groups \cap GidsOf(list[1]) # {} => result = TRUE
                  /\ MemberGids(candidate) \cap GidsOf(list[1]) = {}
                         => result = FALSE
        /\ list \in {user_list(group_name), user_list(group_id)}
               => /\ result = (0 \in MemberGids(candidate))
                  /\ candidate = root => result = TRUE

\* C7 witness: `%users` was evaluated for the user named users, who is not a
\* member of the group
GroupMembership_witness ==
    /\ phase = "evaluated"
    /\ list = <<NamedGroup(0, "users")>>
    /\ candidate.name = "users"
    /\ result = FALSE

\* C7, second case reached: `%users` was evaluated for a member through a
\* supplementary group only
GroupMembership_supplementary ==
    /\ phase = "evaluated"
    /\ list = <<NamedGroup(0, "users")>>
    /\ candidate.gid # 100
    /\ 100 \in candidate.groups
    /\ result = TRUE

\* the alias `a` is defined and its body refers to the alias named `b`
Refers(a, b) ==
    /\ a \in AliasNames(aliases)
    /\ \E j \in DOMAIN Body(aliases, a) :
           Body(aliases, a)[j].kind = "AliasRef" /\ Body(aliases, a)[j].name = b

\* the cycles of the reference graph: the sequences of distinct aliases, each
\* referring to the next and the last to the first, started at the member
\* defined first
Cycles ==
    { s \in SeqsUpTo(AliasNames(aliases), Len(aliases)) :
        /\ s # <<>>
        /\ \A i, j \in DOMAIN s : i # j => s[i] # s[j]
        /\ \A i \in DOMAIN s : Refers(s[i], s[(i % Len(s)) + 1])
        /\ \A i \in DOMAIN s :
               \A k, m \in DOMAIN aliases :
                   aliases[k].name = s[1] /\ aliases[m].name = s[i] => k <= m }

\* the alias directly or transitively references itself
OnCycle(n) == \E s \in Cycles : n \in Range(s)

\* the places that refer to an alias no definition names
UndefinedReferences ==
    { <<a, j>> \in AliasNames(aliases) \X (1..MaxBody) :
        /\ j \in DOMAIN Body(aliases, a)
        /\ Body(aliases, a)[j].kind = "AliasRef"
        /\ Body(aliases, a)[j].name \notin AliasNames(aliases) }

UndefinedInList ==
    { j \in DOMAIN list :
        list[j].kind = "AliasRef" /\ list[j].name \notin AliasNames(aliases) }

DiagnosticsOf(kind) ==
    { i \in DOMAIN diagnostics : diagnostics[i].message.kind = kind }

\* C4, first part: a reference to an undefined alias, or to an alias that
\* directly or transitively references itself, evaluates to false for every
\* candidate.
ReferenceFailsClosed ==
    phase = "evaluated" /\ list[1].kind = "AliasRef"
                        /\ (list[1].name \notin AliasNames(aliases) \/ OnCycle(list[1].name))
        => result = FALSE

\* C4, second part: model construction produces exactly one Diagnostic per
\* distinct undefined reference.
OneDiagnosticPerUndefinedReference ==
    phase # "parsed" =>
        Cardinality(DiagnosticsOf("UnknownAlias"))
            = Cardinality(UndefinedReferences) + Cardinality(UndefinedInList)

\* C4, third part: model construction produces exactly one Diagnostic per cycle.
OneDiagnosticPerCycle ==
    phase # "parsed" =>
        Cardinality(DiagnosticsOf("CyclicAlias")) = Cardinality(Cycles)

\* C4: unknown and cyclic aliases fail closed. A reference to an undefined
\* alias, or to an alias that directly or transitively references itself,
\* evaluates to false for every candidate, and model construction produces
\* exactly one Diagnostic per distinct undefined reference and exactly one per
\* cycle.
UnknownAndCyclicFailClosed ==
    /\ ReferenceFailsClosed
    /\ OneDiagnosticPerUndefinedReference
    /\ OneDiagnosticPerCycle

\* C6: a negated alias reference inverts the alias. With
\* `User_Alias ADMINS = %users, !ghost` and the principal list `!ADMINS`, ghost
\* (a member of users) is authorized and ferris (a member of users that ADMINS
\* accepts) is denied.
NegatedAliasInverts ==
    /\ phase = "decided"
    /\ rules = negated_user_alias_works.rules
    /\ aliases = negated_user_alias_works.aliases
    => /\ request.principal.name = "ghost" => verdict.authorized
       /\ request.principal.name = "ferris" => ~verdict.authorized

\* C6, the half that holds: under `!ADMINS` ferris is denied
NegatedAliasDeniesMember ==
    /\ phase = "decided"
    /\ rules = negated_user_alias_works.rules
    /\ aliases = negated_user_alias_works.aliases
    /\ request.principal.name = "ferris"
    => verdict = NoMatchingRule

----------------------------------------------------------------------------
(* Properties of visudo *)

\* the run p takes a step
Steps(p) == proc'[p] # proc[p]

\* C11: a staged copy with diagnostics never replaces the live policy. A step
\* of the editing session of run changes the contents of the live file only
\* when the most recent parse of the staged copy returned no errors; a parse
\* that returns errors takes run to the prompt (edit again / exit without
\* saving), and while the errors of the most recent parse stand no step of
\* that run changes the contents of the live file.
StagedCopyWithDiagnosticsNeverWritten ==
    [][\A p \in Procs :
         /\ (Steps(p) /\ lock = p /\ file'.contents # file.contents)
               => (proc[p].parsed /\ proc[p].errors = {})
         /\ (Steps(p) /\ proc[p].pc = "parse" /\ proc'[p].pc # "unlock"
               /\ proc'[p].errors # {})
               => (proc'[p].pc = "prompt" /\ file' = file)
         /\ (Steps(p) /\ lock = p /\ proc[p].errors # {})
               => file'.contents = file.contents]_vars

\* a second edit, made after a parse with errors, parsed clean and was written
StagedCopyWithDiagnosticsNeverWritten_witness ==
    \E p \in Procs :
        /\ proc[p].pc = "unlock"
        /\ proc[p].msg = "written"
        /\ proc[p].editors = 2
        /\ file.contents = proc[p].tmp

----------------------------------------------------------------------------
(* Properties of the alias walk *)

\* C12: cycle detection terminates on every alias table, self-referential
\* and mutually referential definitions included: construction of the model
\* completes, and the deepest stack of the walk never exceeds the number of
\* distinct alias definitions.
WalkTerminatesWithinDefinitions ==
    /\ (phase = "parsed") ~> (phase = "built")
    /\ [](phase = "built" => depth <= Cardinality(AliasNames(aliases)))

\* a table of three mutually referential definitions was walked to the full
\* depth and its cycle was reported
WalkTerminatesWithinDefinitions_witness ==
    /\ phase = "built"
    /\ Len(aliases) = 3
    /\ depth = 3
    /\ dead = AliasNames(aliases)
    /\ \A i \in DOMAIN aliases : aliases[i].body[1].name # aliases[i].name

\* C15: when run accepts an edit (the staged copy parsed without errors and
\* differs from the original contents) the write leaves the live file with
\* exactly the bytes of the staged copy, none of the previous contents, also
\* when the new contents are shorter than the old ones.
AcceptedEditReplacesContents ==
    [][\A p \in Procs :
         (Steps(p) /\ proc[p].pc = "commit" /\ proc'[p].msg = "written")
           => file'.contents = proc[p].tmp]_vars

\* C16: the contents of the live file are modified only by a run that holds
\* the exclusive lock: under every interleaving of two runs on the same
\* path, the file missing at the start included, a step of a run that does
\* not hold the lock never changes or truncates the contents.
OnlyLockHolderModifies ==
    [][\A p \in Procs :
         (Steps(p) /\ file'.contents # file.contents) => lock = p]_vars

\* the run p is past lock acquisition and has not returned
InSession(p) ==
    proc[p].pc \in {"stage", "editor", "parse", "prompt", "commit", "unlock"}

\* C17: mutual exclusion of editing sessions. Of two concurrent runs on the
\* same path at most one is past lock acquisition at any time, and it holds
\* the lock; a run that asks for the lock while the other holds it does not
\* wait: that step returns "<path> busy, try again later", the lock stays
\* with its holder, and a run that never acquired the lock never started an
\* editor.
MutualExclusion ==
    /\ [](\A p, q \in Procs :
            /\ (InSession(p) /\ InSession(q)) => p = q
            /\ InSession(p) => (lock = p /\ proc[p].acquired)
            /\ proc[p].editors > 0 => InSession(p)
            /\ proc[p].result = "busy, try again later"
                  => (proc[p].pc = "done" /\ ~proc[p].acquired))
    /\ [][\A p \in Procs :
            (Steps(p) /\ proc[p].pc = "lock" /\ lock # 0)
              => /\ proc'[p].pc = "done"
                 /\ proc'[p].result = "busy, try again later"
                 /\ lock' = lock]_vars

\* one run is at its prompt, the other has returned busy
MutualExclusion_witness ==
    \E p, q \in Procs :
        /\ proc[p].pc = "prompt"
        /\ lock = p
        /\ proc[q].result = "busy, try again later"

\* C18: the lock is released on every path. Once run has acquired the lock,
\* every way out of the editing session (the edit accepted, the user's exit,
\* a failure to read stdin, an I/O error in staging, in the editor's spawn or
\* in re-opening the temporary file) goes through the unlock step before
\* run returns, and run reports the session's result, an error included,
\* only when the lock has been released.
LockReleasedOnEveryPath ==
    /\ [](\A p \in Procs :
            (proc[p].acquired /\ proc[p].pc \in {"return", "done"})
              => (proc[p].unlocked /\ lock # p))
    /\ [][\A p \in Procs :
            /\ (Steps(p) /\ InSession(p) /\ proc'[p].pc \in {"return", "done"})
                  => (proc[p].pc = "unlock" /\ proc'[p].unlocked /\ lock' = 0)
            /\ (proc[p].acquired /\ proc[p].result = "none" /\ proc'[p].result # "none")
                  => (proc[p].unlocked /\ lock # p
                        /\ proc'[p].result = proc[p].session)]_vars

\* a run whose session failed to re-open the temporary file has returned that
\* error with the lock released
LockReleasedOnEveryPath_witness ==
    \E p \in Procs :
        /\ proc[p].pc = "done"
        /\ proc[p].acquired
        /\ proc[p].unlocked
        /\ proc[p].result = "unable to re-open temporary file"
        /\ lock = 0

\* the run p is in the edit loop of its session
InLoop(p) == proc[p].pc \in {"editor", "parse", "prompt"}

----------------------------------------------------------------------------
(* Properties of visudo check *)

====
